---------------------------- MODULE Spec2Model ----------------------------
(***************************************************************************)
(* Jan-Dhan gateway: the five-gate claim validator (validator.js), the     *)
(* system state singleton (state.js), the hash-linked ledger (ledger.js)   *)
(* and the registry lookup (registry.js).                                  *)
(*                                                                         *)
(* Text is modelled as a sequence of symbols.  A symbol is a TLA+ string:  *)
(* one character ("F", "0", "|", "\n"), or one fixed-width block that the  *)
(* program never takes apart (a 64-hex-digit SHA-256 digest, a 24-char     *)
(* ISO timestamp).  A digest is the symbol "sha256(<input>)", so equal     *)
(* inputs give equal digests and different inputs different digests.       *)
(***************************************************************************)
EXTENDS Integers, Sequences, FiniteSets, TLC

VARIABLES
    status,            \* state.js _state.status
    budget,            \* state.js _state.budget
    transactionCount,  \* state.js _state.transactionCount
    processedHashes,   \* validator.js processedHashes
    ledgerFile,        \* data/ledger.txt: [exists, content]
    metaFile,          \* data/ledger_meta.json: [exists, fileHash]
    lastHash,          \* ledger.js lastHash
    initialized,       \* ledger.js initialized
    now,               \* the wall clock read by new Date(), in hours
    lastCall,          \* the most recent step: its operation and arguments
    lastResult,        \* the value returned by the most recent request
    approvedLog,       \* history: the claims approved since the process started
    tamper             \* history: the external edit made to the data files

vars == <<status, budget, transactionCount, processedHashes, ledgerFile,
          metaFile, lastHash, initialized, now, lastCall, lastResult,
          approvedLog, tamper>>

---------------------------------------------------------------------------
(* Bounds of the model.                                                    *)

MaxNow == 12
TickHours == 12

---------------------------------------------------------------------------
(* Text helpers: String.prototype.trim / padStart / toLowerCase / split,   *)
(* Array.prototype.join and String(number).                                *)

WhiteSpace == {" ", "\n", "\t"}

RECURSIVE TrimStart(_)
TrimStart(s) ==
    IF s # <<>> /\ Head(s) \in WhiteSpace THEN TrimStart(Tail(s)) ELSE s

RECURSIVE TrimEnd(_)
TrimEnd(s) ==
    IF s # <<>> /\ s[Len(s)] \in WhiteSpace
    THEN TrimEnd(SubSeq(s, 1, Len(s) - 1))
    ELSE s

Trim(s) == TrimEnd(TrimStart(s))

RECURSIVE PadStart(_, _, _)
PadStart(s, width, fill) ==
    IF Len(s) >= width THEN s ELSE PadStart(<<fill>> \o s, width, fill)

LowerOf(c) ==
    CASE c = "A" -> "a"
      [] c = "C" -> "c"
      [] c = "D" -> "d"
      [] c = "F" -> "f"
      [] c = "E" -> "e"
      [] c = "H" -> "h"
      [] c = "I" -> "i"
      [] c = "O" -> "o"
      [] c = "T" -> "t"
      [] c = "V" -> "v"
      [] OTHER -> c

ToLowerCase(s) == [i \in 1..Len(s) |-> LowerOf(s[i])]

RECURSIVE Concat(_)
Concat(parts) ==
    IF parts = <<>> THEN <<>> ELSE Head(parts) \o Concat(Tail(parts))

\* s.split(sep): the pieces between the separators, empty pieces included.
RECURSIVE SplitFrom(_, _, _)
SplitFrom(s, sep, cur) ==
    IF s = <<>> THEN <<cur>>
    ELSE IF Head(s) = sep THEN <<cur>> \o SplitFrom(Tail(s), sep, <<>>)
    ELSE SplitFrom(Tail(s), sep, Append(cur, Head(s)))

Split(s, sep) == SplitFrom(s, sep, <<>>)

DigitOf(d) ==
    CASE d = 0 -> "0" [] d = 1 -> "1" [] d = 2 -> "2" [] d = 3 -> "3"
      [] d = 4 -> "4" [] d = 5 -> "5" [] d = 6 -> "6" [] d = 7 -> "7"
      [] d = 8 -> "8" [] d = 9 -> "9"

\* String(n) for an integer n.
RECURSIVE NumToString(_)
NumToString(n) ==
    IF n < 0 THEN <<"-">> \o NumToString(0 - n)
    ELSE IF n < 10 THEN <<DigitOf(n)>>
    ELSE NumToString(n \div 10) \o <<DigitOf(n % 10)>>

\* Groups of two digits, comma separated, of the digits left of the last three.
RECURSIVE GroupTwo(_)
GroupTwo(ds) ==
    IF Len(ds) <= 2 THEN ds
    ELSE GroupTwo(SubSeq(ds, 1, Len(ds) - 2)) \o <<",">>
         \o SubSeq(ds, Len(ds) - 1, Len(ds))

\* n.toLocaleString('en-IN') for a non-negative integer n: 10,00,000
ToLocaleIN(n) ==
    LET ds == NumToString(n)
    IN  IF Len(ds) <= 3 THEN ds
        ELSE GroupTwo(SubSeq(ds, 1, Len(ds) - 3)) \o <<",">>
             \o SubSeq(ds, Len(ds) - 2, Len(ds))

\* Math.ceil(x / n) and Math.floor(x / n) for integers x and n > 0
CeilDiv(x, n) == 0 - ((0 - x) \div n)
FloorDiv(x, n) == x \div n

\* new Date().toISOString(): one fixed-width block naming the instant.
ToISOString(t) == <<"T" \o ToString(t)>>

\* crypto.createHash('sha256').update(text).digest('hex')
Digest(text) == <<"sha256(" \o ToString(text) \o ")">>

\* ledger.js sha256(...parts): the digest of parts.join('')
sha256(parts) == Digest(Concat(parts))

---------------------------------------------------------------------------
(* registry.js                                                             *)

\* String(rawId).trim().padStart(12, '0'), then SHA-256
PadWidth == 12

\* Mutant: the raw identity is padded without being trimmed.
hashCitizenId_NoTrim(rawId) == Digest(PadStart(rawId, PadWidth, "0"))

hashCitizenId(rawId) == Digest(PadStart(Trim(rawId), PadWidth, "0"))

NoDate == <<>>
DateAt(t) == <<t>>

Food == <<"F", "o", "o", "d">>
Health == <<"H", "e", "a", "l", "t", "h">>
Active == <<"A", "c", "t", "i", "v", "e">>
ACTIVE == <<"A", "C", "T", "I", "V", "E">>
Closed == <<"C", "l", "o", "s", "e", "d">>

Row(id, st, linked, sch, amt, cnt, last) ==
    [Citizen_ID |-> id, account_status |-> st, aadhaar_linked |-> linked,
     scheme_eligibility |-> sch, scheme_amount |-> amt, claim_count |-> cnt,
     last_claim_date |-> last]

\* The rows of the spreadsheet as loadRegistry normalises them.  Dates are
\* hours on the model clock (0 is the instant the process starts).
RegistryRows ==
    { Row(<<"1">>, Active, TRUE,  Food,   500000, 0, NoDate),
      Row(<<"2">>, ACTIVE, TRUE,  Health, 500000, 3, DateAt(-720)),
      Row(<<"3">>, Active, TRUE,  Food,   600000, 1, DateAt(-240)),
      Row(<<"4">>, Closed, FALSE, Food,   500000, 5, NoDate),
      Row(<<"5">>, Active, FALSE, Health, 500000, 4, NoDate),
      Row(<<"6">>, Active, TRUE,  Food,   500000, 4, NoDate),
      Row(<<"7">>, Active, TRUE,  Food,   0,      0, DateAt(-708)),
      Row(<<"8">>, Active, TRUE,  Food,   600000, 0, NoDate) }

\* registryMap after loadRegistry: keyed by the hash of each Citizen_ID.
registryMap == [h \in {hashCitizenId(r.Citizen_ID) : r \in RegistryRows} |->
                  CHOOSE r \in RegistryRows : hashCitizenId(r.Citizen_ID) = h]

\* registryMap.get(hash) || null; null is the empty sequence, a record is a
\* one-element sequence.
lookup(hash) ==
    IF hash \in DOMAIN registryMap THEN <<registryMap[hash]>> ELSE <<>>

---------------------------------------------------------------------------
(* state.js.  The operations are functions of the whole program state w,   *)
(* a record of the variables, so that a handler can be composed of them.   *)

INITIAL_BUDGET == 1000000

\* Mutant: getState returns _state itself.
getStateObject_State == "_state"

\* The object getState returns: the literal { ..._state } makes a new
\* object at every call.
getStateObject == "new"

getState(w) ==
    [status |-> w.status, budget |-> w.budget,
     transactionCount |-> w.transactionCount, initialBudget |-> INITIAL_BUDGET]

\* Mutant: pause does not test the current status.
pause_Unconditional(w) == [w EXCEPT !.status = "paused"]

pause(w) ==
    IF w.status = "active" THEN [w EXCEPT !.status = "paused"] ELSE w

\* Mutant: resume tests "not active" instead of "paused".
resume_FromAny(w) ==
    IF w.status # "active" THEN [w EXCEPT !.status = "active"] ELSE w

\* Mutant: resuming also restores the budget.
resume_RestoresBudget(w) ==
    IF w.status = "paused"
    THEN [w EXCEPT !.status = "active", !.budget = INITIAL_BUDGET]
    ELSE w

resume(w) ==
    IF w.status = "paused" THEN [w EXCEPT !.status = "active"] ELSE w

freeze(w) == [w EXCEPT !.status = "frozen"]

\* Mutant: the amount is added instead of subtracted.
deduct_Add(w, amount) ==
    LET w1 == [w EXCEPT !.budget = w.budget + amount]
    IN  IF w1.budget <= 0 THEN freeze([w1 EXCEPT !.budget = 0]) ELSE w1

\* Mutant: the budget is clamped at zero but the system is not frozen.
deduct_NoFreeze(w, amount) ==
    LET w1 == [w EXCEPT !.budget = w.budget - amount]
    IN  IF w1.budget <= 0 THEN [w1 EXCEPT !.budget = 0] ELSE w1

\* Mutant: the system is frozen only when the budget falls below zero.
deduct_FreezeBelowZero(w, amount) ==
    LET w1 == [w EXCEPT !.budget = w.budget - amount]
    IN  IF w1.budget < 0 THEN freeze([w1 EXCEPT !.budget = 0]) ELSE w1

deduct(w, amount) ==
    LET w1 == [w EXCEPT !.budget = w.budget - amount]
    IN  IF w1.budget <= 0 THEN freeze([w1 EXCEPT !.budget = 0]) ELSE w1

incrTx(w) == [w EXCEPT !.transactionCount = w.transactionCount + 1]

---------------------------------------------------------------------------
(* ledger.js                                                               *)

\* '0'.repeat(64), one 64-character block
GENESIS_HASH == <<"0000000000000000000000000000000000000000000000000000000000000000">>

computeFileHash(w) ==
    IF ~w.ledgerFile.exists THEN GENESIS_HASH ELSE Digest(w.ledgerFile.content)

\* JSON.stringify({ fileHash }) written to the side file.  fs.writeFileSync
\* throws when the write fails (w.fault names the write that fails during
\* this request); the file is then left as it was.
saveMeta(w, fileHash) ==
    IF w.fault = "writeFileSync" THEN [w EXCEPT !.threw = TRUE]
    ELSE [w EXCEPT !.metaFile = [exists |-> TRUE, fileHash |-> fileHash]]

\* null (the empty sequence) when the side file is absent
loadMeta(w) ==
    IF ~w.metaFile.exists THEN <<>> ELSE <<[fileHash |-> w.metaFile.fileHash]>>

\* content.split('\n').map(l => l.trim()).filter(Boolean)
RECURSIVE NonEmptyTrimmed(_)
NonEmptyTrimmed(ls) ==
    IF ls = <<>> THEN <<>>
    ELSE LET l == Trim(Head(ls))
         IN  IF l = <<>> THEN NonEmptyTrimmed(Tail(ls))
             ELSE <<l>> \o NonEmptyTrimmed(Tail(ls))

ReadLines(w) == NonEmptyTrimmed(Split(w.ledgerFile.content, "\n"))

\* The loop of verifyIntegrity over lines[i..]: ok and the final prevHash.
RECURSIVE WalkChain(_, _, _)
WalkChain(lines, i, prevHash) ==
    IF i > Len(lines) THEN [ok |-> TRUE, prevHash |-> prevHash]
    ELSE LET parts == Split(lines[i], "|")
         IN  IF Len(parts) # 6 THEN [ok |-> FALSE, prevHash |-> prevHash]
             ELSE LET storedPrevHash == parts[5]
                      storedCurrHash == parts[6]
                      expectedCurrHash ==
                          sha256(<<parts[1], parts[2], parts[3], parts[4],
                                   storedPrevHash>>)
                  IN  IF storedPrevHash # prevHash
                         \/ storedCurrHash # expectedCurrHash
                      THEN [ok |-> FALSE, prevHash |-> prevHash]
                      ELSE WalkChain(lines, i + 1, storedCurrHash)

\* Mutant: only the chain walk is made, the file digest is not compared.
verifyIntegrity_ChainWalkOnly(w) ==
    IF ~w.ledgerFile.exists
    THEN [w |-> [w EXCEPT !.initialized = TRUE], ret |-> TRUE]
    ELSE LET walk == WalkChain(ReadLines(w), 1, GENESIS_HASH)
         IN  IF ~walk.ok THEN [w |-> freeze(w), ret |-> FALSE]
             ELSE [w |-> [w EXCEPT !.lastHash = walk.prevHash,
                                   !.initialized = TRUE],
                   ret |-> TRUE]

\* Mutant: a failed chain walk leaves the cursor at the running hash.
verifyIntegrity_CursorOnFailure(w) ==
    IF ~w.ledgerFile.exists
    THEN [w |-> [w EXCEPT !.initialized = TRUE], ret |-> TRUE]
    ELSE LET meta == loadMeta(w)
             actualFileHash == computeFileHash(w)
         IN  IF meta # <<>> /\ meta[1].fileHash # actualFileHash
             THEN [w |-> freeze(w), ret |-> FALSE]
             ELSE LET walk == WalkChain(ReadLines(w), 1, GENESIS_HASH)
                  IN  IF ~walk.ok
                      THEN [w |-> freeze([w EXCEPT !.lastHash = walk.prevHash]),
                            ret |-> FALSE]
                      ELSE [w |-> [w EXCEPT !.lastHash = walk.prevHash,
                                            !.initialized = TRUE],
                            ret |-> TRUE]

\* Mutant: a digest mismatch is reported and the stored digest refreshed.
verifyIntegrity_RepairsDigest(w) ==
    IF ~w.ledgerFile.exists
    THEN [w |-> [w EXCEPT !.initialized = TRUE], ret |-> TRUE]
    ELSE LET meta == loadMeta(w)
             actualFileHash == computeFileHash(w)
         IN  IF meta # <<>> /\ meta[1].fileHash # actualFileHash
             THEN [w |-> saveMeta(freeze(w), actualFileHash), ret |-> FALSE]
             ELSE LET walk == WalkChain(ReadLines(w), 1, GENESIS_HASH)
                  IN  IF ~walk.ok THEN [w |-> freeze(w), ret |-> FALSE]
                      ELSE [w |-> [w EXCEPT !.lastHash = walk.prevHash,
                                            !.initialized = TRUE],
                            ret |-> TRUE]

\* Returns the state after the call (w) and the returned boolean (ret).
verifyIntegrity(w) ==
    IF ~w.ledgerFile.exists
    THEN [w |-> [w EXCEPT !.initialized = TRUE], ret |-> TRUE]
    ELSE LET meta == loadMeta(w)
             actualFileHash == computeFileHash(w)
         IN  IF meta # <<>> /\ meta[1].fileHash # actualFileHash
             THEN [w |-> freeze(w), ret |-> FALSE]
             ELSE LET walk == WalkChain(ReadLines(w), 1, GENESIS_HASH)
                  IN  IF ~walk.ok THEN [w |-> freeze(w), ret |-> FALSE]
                      ELSE [w |-> [w EXCEPT !.lastHash = walk.prevHash,
                                            !.initialized = TRUE],
                            ret |-> TRUE]

\* fs.appendFileSync(LEDGER_FILE, line): creates the file when absent, and
\* throws, with nothing written, when the write fails.
appendFileSync(w, line) ==
    IF w.fault = "appendFileSync" THEN [w EXCEPT !.threw = TRUE]
    ELSE [w EXCEPT !.ledgerFile = [exists |-> TRUE,
                                   content |-> w.ledgerFile.content \o line]]

\* Mutant: the in-memory cursor is not advanced after the write.
append_CursorNotAdvanced(w, citizenHash, scheme, amount) ==
    LET w1 == IF ~w.initialized THEN verifyIntegrity(w).w ELSE w
        timestamp == ToISOString(w1.now)
        prevHash == w1.lastHash
        currentHash == sha256(<<timestamp, citizenHash, scheme,
                                NumToString(amount), prevHash>>)
        line == timestamp \o <<"|">> \o citizenHash \o <<"|">> \o scheme
                \o <<"|">> \o NumToString(amount) \o <<"|">> \o prevHash
                \o <<"|">> \o currentHash \o <<"\n">>
        w2 == appendFileSync(w1, line)
        w4 == saveMeta(w2, computeFileHash(w2))
    IN  [w |-> w4, ret |-> [timestamp |-> timestamp, currentHash |-> currentHash]]

\* Mutant: the stored file digest is not refreshed after the write.
append_NoSaveMeta(w, citizenHash, scheme, amount) ==
    LET w1 == IF ~w.initialized THEN verifyIntegrity(w).w ELSE w
        timestamp == ToISOString(w1.now)
        prevHash == w1.lastHash
        currentHash == sha256(<<timestamp, citizenHash, scheme,
                                NumToString(amount), prevHash>>)
        line == timestamp \o <<"|">> \o citizenHash \o <<"|">> \o scheme
                \o <<"|">> \o NumToString(amount) \o <<"|">> \o prevHash
                \o <<"|">> \o currentHash \o <<"\n">>
        w2 == appendFileSync(w1, line)
        w3 == [w2 EXCEPT !.lastHash = currentHash]
    IN  [w |-> w3, ret |-> [timestamp |-> timestamp, currentHash |-> currentHash]]

\* Mutant: the stored file digest is computed before the entry is written.
append_DigestBeforeWrite(w, citizenHash, scheme, amount) ==
    LET w1 == IF ~w.initialized THEN verifyIntegrity(w).w ELSE w
        timestamp == ToISOString(w1.now)
        prevHash == w1.lastHash
        currentHash == sha256(<<timestamp, citizenHash, scheme,
                                NumToString(amount), prevHash>>)
        line == timestamp \o <<"|">> \o citizenHash \o <<"|">> \o scheme
                \o <<"|">> \o NumToString(amount) \o <<"|">> \o prevHash
                \o <<"|">> \o currentHash \o <<"\n">>
        w2 == appendFileSync(w1, line)
        w3 == [w2 EXCEPT !.lastHash = currentHash]
        w4 == saveMeta(w3, computeFileHash(w1))
    IN  [w |-> w4, ret |-> [timestamp |-> timestamp, currentHash |-> currentHash]]

\* Mutant: the entry's hash does not cover its previous-entry hash.
append_HashOmitsPrev(w, citizenHash, scheme, amount) ==
    LET w1 == IF ~w.initialized THEN verifyIntegrity(w).w ELSE w
        timestamp == ToISOString(w1.now)
        prevHash == w1.lastHash
        currentHash == sha256(<<timestamp, citizenHash, scheme,
                                NumToString(amount)>>)
        line == timestamp \o <<"|">> \o citizenHash \o <<"|">> \o scheme
                \o <<"|">> \o NumToString(amount) \o <<"|">> \o prevHash
                \o <<"|">> \o currentHash \o <<"\n">>
        w2 == appendFileSync(w1, line)
        w3 == [w2 EXCEPT !.lastHash = currentHash]
        w4 == saveMeta(w3, computeFileHash(w3))
    IN  [w |-> w4, ret |-> [timestamp |-> timestamp, currentHash |-> currentHash]]

\* Mutant: the in-memory cursor is advanced before the entry is written.
append_CursorBeforeWrite(w, citizenHash, scheme, amount) ==
    LET w1 == IF ~w.initialized THEN verifyIntegrity(w).w ELSE w
        timestamp == ToISOString(w1.now)
        prevHash == w1.lastHash
        currentHash == sha256(<<timestamp, citizenHash, scheme,
                                NumToString(amount), prevHash>>)
        line == timestamp \o <<"|">> \o citizenHash \o <<"|">> \o scheme
                \o <<"|">> \o NumToString(amount) \o <<"|">> \o prevHash
                \o <<"|">> \o currentHash \o <<"\n">>
        w2 == appendFileSync([w1 EXCEPT !.lastHash = currentHash], line)
        w4 == saveMeta(w2, computeFileHash(w2))
    IN  [w |-> IF w2.threw THEN w2 ELSE w4,
         ret |-> [timestamp |-> timestamp, currentHash |-> currentHash]]

\* Mutant: the ledger line carries the amount as it is displayed.
appendEntry_LocaleAmount(w1, citizenHash, scheme, amount) ==
    LET timestamp == ToISOString(w1.now)
        prevHash == w1.lastHash
        currentHash == sha256(<<timestamp, citizenHash, scheme,
                                ToLocaleIN(amount), prevHash>>)
        line == timestamp \o <<"|">> \o citizenHash \o <<"|">> \o scheme
                \o <<"|">> \o ToLocaleIN(amount) \o <<"|">> \o prevHash
                \o <<"|">> \o currentHash \o <<"\n">>
        w2 == appendFileSync(w1, line)
        w3 == [w2 EXCEPT !.lastHash = currentHash]
        w4 == saveMeta(w3, computeFileHash(w3))
    IN  [w |-> IF w2.threw THEN w2 ELSE w4,
         ret |-> [timestamp |-> timestamp, currentHash |-> currentHash]]

\* The statements of append after the initialisation, from the state w1.
\* An exception thrown by a write ends the call at that statement: w is the
\* state reached by then, with w.threw set, and nothing is returned.
appendEntry(w1, citizenHash, scheme, amount) ==
    LET timestamp == ToISOString(w1.now)
        prevHash == w1.lastHash
        currentHash == sha256(<<timestamp, citizenHash, scheme,
                                NumToString(amount), prevHash>>)
        line == timestamp \o <<"|">> \o citizenHash \o <<"|">> \o scheme
                \o <<"|">> \o NumToString(amount) \o <<"|">> \o prevHash
                \o <<"|">> \o currentHash \o <<"\n">>
        w2 == appendFileSync(w1, line)
        w3 == [w2 EXCEPT !.lastHash = currentHash]
        w4 == saveMeta(w3, computeFileHash(w3))
    IN  [w |-> IF w2.threw THEN w2 ELSE w4,
         ret |-> [timestamp |-> timestamp, currentHash |-> currentHash]]

\* Returns the state after the call (w) and {timestamp, currentHash} (ret).
append(w, citizenHash, scheme, amount) ==
    appendEntry(IF ~w.initialized THEN verifyIntegrity(w).w ELSE w,
                citizenHash, scheme, amount)

\* The one-character symbols of the ledger file; every other symbol is a
\* fixed-width block (a digest or a timestamp).
Chars ==
    {"0", "1", "2", "3", "4", "5", "6", "7", "8", "9", "F", "H", "a", "d",
     "e", "f", "h", "l", "o", "t", "x", "|", " ", "\n", "\t"}

\* text.slice(0, k): the first k characters.  A block is wider than k, so
\* the characters taken from it are one symbol, its prefix.
RECURSIVE Slice(_, _)
Slice(text, k) ==
    IF k = 0 \/ text = <<>> THEN <<>>
    ELSE IF Head(text) \in Chars THEN <<Head(text)>> \o Slice(Tail(text), k - 1)
    ELSE <<"slice(" \o Head(text) \o ", " \o ToString(k) \o ")">>

\* slice(0, 12)
DisplayWidth == 12

\* x ? x.slice(0, 12) + '...' : ''
Shorten(field) ==
    IF field = <<>> THEN <<>>
    ELSE Slice(field, DisplayWidth) \o <<".", ".", ".">>

\* A name of the destructuring that has no element is undefined, and is
\* left out of the response; it is modelled as the empty text.
FieldAt(parts, i) == IF i <= Len(parts) THEN parts[i] ELSE <<>>

\* The object getLastLines makes of one line
EntryView(line) ==
    LET parts == Split(line, "|")
    IN  [timestamp |-> FieldAt(parts, 1),
         citizenHash |-> Shorten(FieldAt(parts, 2)),
         scheme |-> FieldAt(parts, 3),
         amount |-> FieldAt(parts, 4),
         prevHash |-> Shorten(FieldAt(parts, 5)),
         currHash |-> Shorten(FieldAt(parts, 6))]

\* lines.slice(-n) for n >= 0: -0 is 0, so slice(-0) is the whole array.
SliceLast(lines, n) ==
    IF n = 0 \/ n >= Len(lines) THEN lines
    ELSE SubSeq(lines, Len(lines) - n + 1, Len(lines))

\* Mutant: the lines are counted from the start of the file.
getLastLines_FromStart(w, n) ==
    IF ~w.ledgerFile.exists THEN <<>>
    ELSE LET lines == ReadLines(w)
             first == SubSeq(lines, 1, IF n >= Len(lines) THEN Len(lines) ELSE n)
         IN  [i \in DOMAIN first |-> EntryView(first[i])]

getLastLines(w, n) ==
    IF ~w.ledgerFile.exists THEN <<>>
    ELSE LET lines == SliceLast(ReadLines(w), n)
         IN  [i \in DOMAIN lines |-> EntryView(lines[i])]

---------------------------------------------------------------------------
(* validator.js                                                            *)

\* The clock counts hours: 1000 * 60 * 60 * 24 ms are 24 of its units.
HoursPerDay == 24
\* if (diffDays < 30)
MinDays == 30
\* if (record.claim_count > 3)
MaxClaims == 3

\* A rejection: the state is returned as it is and the decision names the
\* gate; reason is the message (a code) and the values interpolated in it.
Reject(w, gate, code, args) ==
    [w |-> w,
     ret |-> [approved |-> FALSE, gate |-> gate,
              reason |-> [code |-> code, args |-> args]]]

\* Mutant: the approval forgets to record the token in the replay set.
Approve_NoReplayRecord(w, citizenHash, scheme, amount) ==
    LET w2 == incrTx(deduct(w, amount))
        ledgerEntry == append(w2, citizenHash, scheme, amount)
    IN  [w |-> ledgerEntry.w,
         ret |-> [approved |-> TRUE, gate |-> "Approved",
                  reason |-> [code |-> "approved", args |-> <<>>],
                  amount |-> amount, scheme |-> scheme,
                  timestamp |-> ledgerEntry.ret.timestamp]]

\* An exception leaves validate: no decision object is returned (the route
\* has no handler for it and the request ends with an error response).
Thrown(w) ==
    [w |-> w,
     ret |-> [approved |-> FALSE, gate |-> "Exception",
              reason |-> [code |-> "exception", args |-> <<>>]]]

\* The decision returned once ledger.append has returned ledgerEntry
Approved(ledgerEntry, scheme, amount) ==
    IF ledgerEntry.w.threw THEN Thrown(ledgerEntry.w)
    ELSE [w |-> ledgerEntry.w,
          ret |-> [approved |-> TRUE, gate |-> "Approved",
                   reason |-> [code |-> "approved", args |-> <<>>],
                   amount |-> amount, scheme |-> scheme,
                   timestamp |-> ledgerEntry.ret.timestamp]]

\* ALL GATES PASSED - APPROVE
Approve(w, citizenHash, scheme, amount) ==
    LET w1 == deduct(w, amount)
        w2 == incrTx(w1)
        w3 == [w2 EXCEPT !.processedHashes = w2.processedHashes \cup {citizenHash}]
    IN  Approved(append(w3, citizenHash, scheme, amount), scheme, amount)

\* Mutant: a claim exactly 30 days after the last one still has to wait.
Gate5_ThirtyDaysWaits(w, citizenHash, scheme, record) ==
    LET amount == record.scheme_amount
        diffHours == w.now - record.last_claim_date[1]
    IN  IF record.last_claim_date # NoDate /\ diffHours <= MinDays * HoursPerDay
        THEN Reject(w, "Frequency", "too-soon",
                    << NumToString(FloorDiv(diffHours, HoursPerDay)),
                       NumToString(CeilDiv(MinDays * HoursPerDay - diffHours,
                                           HoursPerDay)) >>)
        ELSE Approve(w, citizenHash, scheme, amount)

\* Gate 5: Frequency, then approval
Gate5(w, citizenHash, scheme, record) ==
    LET amount == record.scheme_amount
        diffHours == w.now - record.last_claim_date[1]
    IN  IF record.last_claim_date # NoDate /\ diffHours < MinDays * HoursPerDay
        THEN Reject(w, "Frequency", "too-soon",
                    << NumToString(FloorDiv(diffHours, HoursPerDay)),
                       NumToString(CeilDiv(MinDays * HoursPerDay - diffHours,
                                           HoursPerDay)) >>)
        ELSE Approve(w, citizenHash, scheme, amount)

\* Mutant: the budget is deducted as soon as Gate 4 passes.
Gate4_DeductOnPass(w, snapBudget, citizenHash, scheme, record) ==
    LET amount == record.scheme_amount
    IN  IF snapBudget <= 0
        THEN [Reject(w, "Budget", "exhausted", <<>>) EXCEPT !.w = freeze(w)]
        ELSE IF snapBudget < amount
        THEN Reject(w, "Budget", "insufficient",
                    <<ToLocaleIN(snapBudget), ToLocaleIN(amount)>>)
        ELSE Gate5(deduct(w, amount), citizenHash, scheme, record)

\* Mutant: a claim for the whole remaining budget counts as insufficient.
Gate4_ExactIsInsufficient(w, snapBudget, citizenHash, scheme, record) ==
    LET amount == record.scheme_amount
    IN  IF snapBudget <= 0
        THEN [Reject(w, "Budget", "exhausted", <<>>) EXCEPT !.w = freeze(w)]
        ELSE IF snapBudget <= amount
        THEN Reject(w, "Budget", "insufficient",
                    <<ToLocaleIN(snapBudget), ToLocaleIN(amount)>>)
        ELSE Gate5(w, citizenHash, scheme, record)

\* Mutant: Gate 4 tests the budget the process started with, as a call
\* would that had read the budget before an earlier call deducted from it.
Gate4_StaleBudget(w, snapBudget, citizenHash, scheme, record) ==
    LET amount == record.scheme_amount
    IN  IF INITIAL_BUDGET < amount
        THEN Reject(w, "Budget", "insufficient",
                    <<ToLocaleIN(snapBudget), ToLocaleIN(amount)>>)
        ELSE Gate5(w, citizenHash, scheme, record)

\* Mutant: the shortfall is tested before the empty budget.
Gate4_ShortfallFirst(w, snapBudget, citizenHash, scheme, record) ==
    LET amount == record.scheme_amount
    IN  IF snapBudget < amount
        THEN Reject(w, "Budget", "insufficient",
                    <<ToLocaleIN(snapBudget), ToLocaleIN(amount)>>)
        ELSE IF snapBudget <= 0
        THEN [Reject(w, "Budget", "exhausted", <<>>) EXCEPT !.w = freeze(w)]
        ELSE Gate5(w, citizenHash, scheme, record)

\* Gate 4: Budget.  snapBudget is the budget read by getState() at the start.
Gate4(w, snapBudget, citizenHash, scheme, record) ==
    LET amount == record.scheme_amount
    IN  IF snapBudget <= 0
        THEN [Reject(w, "Budget", "exhausted", <<>>) EXCEPT !.w = freeze(w)]
        ELSE IF snapBudget < amount
        THEN Reject(w, "Budget", "insufficient",
                    <<ToLocaleIN(snapBudget), ToLocaleIN(amount)>>)
        ELSE Gate5(w, citizenHash, scheme, record)

\* Mutant: the scheme is compared before the credential link is tested.
Gate3_MismatchBeforeLinked(w, snapBudget, citizenHash, scheme) ==
    LET found == lookup(citizenHash)
        record == found[1]
    IN  IF found = <<>>
        THEN Reject(w, "Eligibility", "not-found", <<>>)
        ELSE IF ToLowerCase(record.account_status) # ToLowerCase(Active)
        THEN Reject(w, "Eligibility", "inactive", <<record.account_status>>)
        ELSE IF ToLowerCase(record.scheme_eligibility) # ToLowerCase(Trim(scheme))
        THEN Reject(w, "Eligibility", "mismatch",
                    <<record.scheme_eligibility, scheme>>)
        ELSE IF ~record.aadhaar_linked
        THEN Reject(w, "Eligibility", "not-linked", <<>>)
        ELSE IF record.claim_count > MaxClaims
        THEN Reject(w, "Eligibility", "limit-exceeded",
                    <<NumToString(record.claim_count), NumToString(MaxClaims)>>)
        ELSE Gate4(w, snapBudget, citizenHash, scheme, record)

\* Gate 3: Eligibility
Gate3(w, snapBudget, citizenHash, scheme) ==
    LET found == lookup(citizenHash)
        record == found[1]
    IN  IF found = <<>>
        THEN Reject(w, "Eligibility", "not-found", <<>>)
        ELSE IF ToLowerCase(record.account_status) # ToLowerCase(Active)
        THEN Reject(w, "Eligibility", "inactive", <<record.account_status>>)
        ELSE IF ~record.aadhaar_linked
        THEN Reject(w, "Eligibility", "not-linked", <<>>)
        ELSE IF ToLowerCase(record.scheme_eligibility) # ToLowerCase(Trim(scheme))
        THEN Reject(w, "Eligibility", "mismatch",
                    <<record.scheme_eligibility, scheme>>)
        ELSE IF record.claim_count > MaxClaims
        THEN Reject(w, "Eligibility", "limit-exceeded",
                    <<NumToString(record.claim_count), NumToString(MaxClaims)>>)
        ELSE Gate4(w, snapBudget, citizenHash, scheme, record)

\* Mutant: the replay set is never consulted.
Gate2_NoReplayCheck(w, snapBudget, citizenHash, scheme) ==
    Gate3(w, snapBudget, citizenHash, scheme)

\* Mutant: the registry is consulted before the replay set.
Gate2_EligibilityFirst(w, snapBudget, citizenHash, scheme) ==
    LET r == Gate3(w, snapBudget, citizenHash, scheme)
    IN  IF r.ret.gate = "Eligibility" THEN r
        ELSE IF citizenHash \in w.processedHashes
        THEN Reject(w, "Replay", "duplicate", <<>>)
        ELSE r

\* Mutant: the Replay rejection quotes the identity token in its reason.
Gate2_EchoToken(w, snapBudget, citizenHash, scheme) ==
    IF citizenHash \in w.processedHashes
    THEN Reject(w, "Replay", "duplicate", <<citizenHash>>)
    ELSE Gate3(w, snapBudget, citizenHash, scheme)

\* Gate 2: Replay
Gate2(w, snapBudget, citizenHash, scheme) ==
    IF citizenHash \in w.processedHashes
    THEN Reject(w, "Replay", "duplicate", <<>>)
    ELSE Gate3(w, snapBudget, citizenHash, scheme)

\* Mutant: Gate 1 tests frozen only.
validate_NoPausedCheck(w, citizenId, scheme) ==
    LET citizenHash == hashCitizenId(citizenId)
        s == getState(w)
    IN  IF s.status = "frozen" THEN Reject(w, "System", "frozen", <<>>)
        ELSE Gate2(w, s.budget, citizenHash, scheme)

\* Returns the state after the call (w) and the decision object (ret).
validate(w, citizenId, scheme) ==
    LET citizenHash == hashCitizenId(citizenId)
        s == getState(w)
    IN  IF s.status = "frozen" THEN Reject(w, "System", "frozen", <<>>)
        ELSE IF s.status = "paused" THEN Reject(w, "System", "paused", <<>>)
        ELSE Gate2(w, s.budget, citizenHash, scheme)

---------------------------------------------------------------------------
(* The program as a state machine.  Handlers run to completion one at a    *)
(* time (Node.js runs them on a single thread and none of them awaits).    *)

World ==
    [status |-> status, budget |-> budget,
     transactionCount |-> transactionCount,
     processedHashes |-> processedHashes, ledgerFile |-> ledgerFile,
     metaFile |-> metaFile, lastHash |-> lastHash,
     initialized |-> initialized, now |-> now,
     fault |-> "none", threw |-> FALSE]

Commit(w) ==
    /\ status' = w.status
    /\ budget' = w.budget
    /\ transactionCount' = w.transactionCount
    /\ processedHashes' = w.processedHashes
    /\ ledgerFile' = w.ledgerFile
    /\ metaFile' = w.metaFile
    /\ lastHash' = w.lastHash
    /\ initialized' = w.initialized

Call(op, citizenId, scheme) ==
    [op |-> op, citizenId |-> citizenId, scheme |-> scheme]

\* The raw identities submitted: every registered citizen and one stranger,
\* as 12-digit numerals, and other spellings of citizens 1 and 2.
Pad12(id) == PadStart(id, PadWidth, "0")

RawIds ==
    {Pad12(<<d>>) : d \in {"1", "2", "3", "4", "5", "6", "7", "8", "9"}}
    \cup {<<"1">>, <<" ">> \o Pad12(<<"2">>) \o <<" ">>}

\* The scheme names submitted
Schemes == {Food, <<" ", "f", "o", "o", "d">>, Health}

\* The module-level initialisers of state.js, validator.js and ledger.js on
\* a machine without data files, at time t.
FreshWorld(t) ==
    [status |-> "active", budget |-> INITIAL_BUDGET, transactionCount |-> 0,
     processedHashes |-> {}, lastHash |-> GENESIS_HASH, initialized |-> FALSE,
     ledgerFile |-> [exists |-> FALSE, content |-> <<>>],
     metaFile |-> [exists |-> FALSE, fileHash |-> <<>>],
     now |-> t, fault |-> "none", threw |-> FALSE]

\* The data files an earlier run of the program left behind: it approved
\* one claim, a day before this process started.
PreviousRun == validate(FreshWorld(0 - HoursPerDay), Pad12(<<"1">>), Food).w

\* The process starts on a machine without data files, or on the files of
\* an earlier run; the in-memory state is that of the initialisers.
Start(initialBudget) ==
    /\ status = "active"
    /\ budget = initialBudget
    /\ transactionCount = 0
    /\ processedHashes = {}
    /\ \E disk \in {FreshWorld(0), PreviousRun} :
          /\ ledgerFile = disk.ledgerFile
          /\ metaFile = disk.metaFile
    /\ lastHash = GENESIS_HASH
    /\ initialized = FALSE
    /\ now = 0
    /\ lastCall = Call("start", <<>>, <<>>)
    /\ lastResult = [approved |-> FALSE]
    /\ approvedLog = <<>>
    /\ tamper = "none"

Init == Start(INITIAL_BUDGET)

\* claim.js: const { citizenHash, ...safeResult } = result
safeResult(result) ==
    [f \in DOMAIN result \ {"citizenHash"} |-> result[f]]

\* The step of a validate call that ends in state r.w with outcome r.ret
Validated(r, citizenId, scheme) ==
    /\ Commit(r.w)
    /\ lastCall' = Call("validate", citizenId, scheme)
    /\ lastResult' = safeResult(r.ret)
    /\ approvedLog' =
          IF r.ret.approved
          THEN Append(approvedLog,
                      [citizenId |-> citizenId,
                       citizenHash |-> hashCitizenId(citizenId),
                       scheme |-> r.ret.scheme, amount |-> r.ret.amount])
          ELSE approvedLog
    /\ UNCHANGED <<now, tamper>>

\* validator.validate({ citizenId, scheme })
Validate(citizenId, scheme) ==
    Validated(validate(World, citizenId, scheme), citizenId, scheme)

\* POST /api/admin/pause
Pause ==
    LET w == pause(World)
    IN  /\ Commit(w)
        /\ lastCall' = Call("pause", <<>>, <<>>)
        /\ lastResult' = [success |-> TRUE, status |-> getState(w).status]
        /\ UNCHANGED <<now, approvedLog, tamper>>

\* POST /api/admin/resume
Resume ==
    LET w == resume(World)
    IN  /\ Commit(w)
        /\ lastCall' = Call("resume", <<>>, <<>>)
        /\ lastResult' = [success |-> TRUE, status |-> getState(w).status]
        /\ UNCHANGED <<now, approvedLog, tamper>>

\* The step of a status request: s is the snapshot taken first, v the
\* outcome of the verifyIntegrity call that follows.
Reported(s, v) ==
    /\ Commit(v.w)
    /\ lastCall' = Call("status", <<>>, <<>>)
    /\ lastResult' = [status |-> s.status, budget |-> s.budget,
                      initialBudget |-> s.initialBudget,
                      transactionCount |-> s.transactionCount,
                      ledgerIntegrity |-> v.ret]
    /\ UNCHANGED <<now, approvedLog, tamper>>

\* GET /api/admin/status, and the verifyIntegrity() of server start-up
Status == Reported(getState(World), verifyIntegrity(World))

\* getLastLines(20)
RecentCount == 20

\* GET /api/admin/ledger
Ledger ==
    /\ lastCall' = Call("ledger", <<>>, <<>>)
    /\ lastResult' = [entries |-> getLastLines(World, RecentCount)]
    /\ UNCHANGED <<status, budget, transactionCount, processedHashes,
                   ledgerFile, metaFile, lastHash, initialized, now,
                   approvedLog, tamper>>

\* Time passes between requests.
Tick ==
    /\ now + TickHours <= MaxNow
    /\ now' = now + TickHours
    /\ lastCall' = Call("tick", <<>>, <<>>)
    /\ UNCHANGED <<status, budget, transactionCount, processedHashes,
                   ledgerFile, metaFile, lastHash, initialized, lastResult,
                   approvedLog, tamper>>

Next ==
    \/ \E citizenId \in RawIds, scheme \in Schemes : Validate(citizenId, scheme)
    \/ Pause
    \/ Resume
    \/ Status
    \/ Ledger
    \/ Tick

Spec == Init /\ [][Next]_vars

---------------------------------------------------------------------------
(* The data files edited from outside the process.  data/ledger.txt and    *)
(* data/ledger_meta.json are ordinary files; one external edit is made, at *)
(* any moment between two requests.                                        *)

\* What one character can be overwritten with: another character ("x"),
\* white space, the field separator, a line break.  An overwritten
\* character of a block gives another block, written "x".
ReplacementsFor(sym) ==
    (IF sym \in Chars THEN {"x", " ", "|", "\n"} ELSE {"x"}) \ {sym}

\* The characters that can be inserted between two symbols
Insertions == {"x", " ", "\n"}

ReplaceAt(text, i, c) == [text EXCEPT ![i] = c]

InsertAt(text, i, c) ==
    SubSeq(text, 1, i) \o <<c>> \o SubSeq(text, i + 1, Len(text))

\* One character of the ledger file is overwritten.
EditReplace ==
    /\ ledgerFile.exists
    /\ \E i \in DOMAIN ledgerFile.content :
          \E c \in ReplacementsFor(ledgerFile.content[i]) :
             ledgerFile' = [ledgerFile EXCEPT
                               !.content = ReplaceAt(ledgerFile.content, i, c)]
    /\ tamper' = "replace"
    /\ UNCHANGED metaFile

\* One character is inserted in the ledger file.
EditInsert ==
    /\ ledgerFile.exists
    /\ \E i \in 0..Len(ledgerFile.content) :
          \E c \in Insertions :
             ledgerFile' = [ledgerFile EXCEPT
                               !.content = InsertAt(ledgerFile.content, i, c)]
    /\ tamper' = "insert"
    /\ UNCHANGED metaFile

\* The ledger file is deleted.
EditRemoveLedger ==
    /\ ledgerFile.exists
    /\ ledgerFile' = [exists |-> FALSE, content |-> <<>>]
    /\ tamper' = "remove-ledger"
    /\ UNCHANGED metaFile

\* The side file with the stored digest is deleted.
EditRemoveMeta ==
    /\ metaFile.exists
    /\ metaFile' = [exists |-> FALSE, fileHash |-> <<>>]
    /\ tamper' = "remove-meta"
    /\ UNCHANGED ledgerFile

ExternalEdit ==
    /\ tamper = "none"
    /\ \/ EditReplace
       \/ EditInsert
       \/ EditRemoveLedger
       \/ EditRemoveMeta
    /\ lastCall' = Call("edit", <<>>, <<>>)
    /\ UNCHANGED <<status, budget, transactionCount, processedHashes,
                   lastHash, initialized, now, lastResult, approvedLog>>

\* The claims submitted in the runs with an external edit
TamperIds == {Pad12(<<d>>) : d \in {"1", "2", "9"}}
TamperSchemes == {Food, Health}

NextTamper ==
    \/ \E citizenId \in TamperIds, scheme \in TamperSchemes :
          Validate(citizenId, scheme)
    \/ Status
    \/ ExternalEdit

SpecTamper == Init /\ [][NextTamper]_vars

---------------------------------------------------------------------------
(* Failing writes.  fs.appendFileSync and fs.writeFileSync throw when the  *)
(* disk does not take the write; validate and append catch nothing.        *)

\* The write that fails while a request is handled
Faults == {"appendFileSync", "writeFileSync"}

\* validator.validate({ citizenId, scheme }) during which a write fails
ValidateWriteFails(citizenId, scheme) ==
    \E fault \in Faults :
        \E r \in {validate([World EXCEPT !.fault = fault], citizenId, scheme)} :
            /\ r.w.threw
            /\ Validated(r, citizenId, scheme)

NextFail ==
    \/ \E citizenId \in TamperIds, scheme \in TamperSchemes :
          Validate(citizenId, scheme)
    \/ \E citizenId \in TamperIds, scheme \in TamperSchemes :
          ValidateWriteFails(citizenId, scheme)
    \/ Status

SpecFail == Init /\ [][NextFail]_vars

---------------------------------------------------------------------------
(* The exported getLastLines called with any count, between claims.        *)

\* The counts asked for
Counts == {0, 1, 2, RecentCount}

Recent(n) ==
    /\ lastCall' = Call("getLastLines", <<>>, <<>>)
    /\ lastResult' = [n |-> n, entries |-> getLastLines(World, n)]
    /\ UNCHANGED <<status, budget, transactionCount, processedHashes,
                   ledgerFile, metaFile, lastHash, initialized, now,
                   approvedLog, tamper>>

NextRecent ==
    \/ \E citizenId \in TamperIds, scheme \in TamperSchemes :
          Validate(citizenId, scheme)
    \/ \E n \in Counts : Recent(n)
    \/ Tick

SpecRecent == Init /\ [][NextRecent]_vars

---------------------------------------------------------------------------
(* A caller of getState that assigns to the record it was given.           *)

\* object[field] = value: an assignment reaches the state only through the
\* object _state.
Assign(w, object, field, value) ==
    IF object = "_state" THEN [w EXCEPT ![field] = value] ELSE w

\* The assignments tried
Assignments ==
    {<<"status", "active">>, <<"budget", INITIAL_BUDGET>>,
     <<"transactionCount", 0>>}

\* const s = state.getState(); s[field] = value
ModifySnapshot(field, value) ==
    /\ Commit(Assign(World, getStateObject, field, value))
    /\ lastCall' = Call("modify", <<>>, <<>>)
    /\ lastResult' = [getState(World) EXCEPT ![field] = value]
    /\ UNCHANGED <<now, approvedLog, tamper>>

NextSnapshot ==
    \/ \E citizenId \in TamperIds, scheme \in TamperSchemes :
          Validate(citizenId, scheme)
    \/ Pause
    \/ Status
    \/ \E a \in Assignments : ModifySnapshot(a[1], a[2])

SpecSnapshot == Init /\ [][NextSnapshot]_vars

---------------------------------------------------------------------------
(* POST /api/claim: the route in front of validate.                        *)

\* !body.field: the field is absent or the empty string
Falsy(body, field) == field \notin DOMAIN body \/ body[field] = <<>>

\* /^\d{12}$/.test(text)
TwelveDigitsTest(text) ==
    /\ Len(text) = PadWidth
    /\ \A i \in DOMAIN text :
          text[i] \in {"0", "1", "2", "3", "4", "5", "6", "7", "8", "9"}

\* The response of the route to what validate returned
Responded(r) == [w |-> r.w, ret |-> safeResult(r.ret), validated |-> TRUE]

\* The 400 response of the input checks
BadInput(w, code) ==
    [w |-> w,
     ret |-> [approved |-> FALSE, gate |-> "Input",
              reason |-> [code |-> code, args |-> <<>>]],
     validated |-> FALSE]

\* Mutant: the format of the citizen id is not tested.
claimRoute_NoFormatTest(w, body) ==
    IF Falsy(body, "citizen_id") \/ Falsy(body, "scheme")
    THEN BadInput(w, "missing")
    ELSE Responded(validate(w, Trim(body.citizen_id), Trim(body.scheme)))

\* router.post('/', ...): w is the state after the request, ret the JSON
\* sent, validated whether validate was called.
claimRoute(w, body) ==
    IF Falsy(body, "citizen_id") \/ Falsy(body, "scheme")
    THEN BadInput(w, "missing")
    ELSE IF ~TwelveDigitsTest(Trim(body.citizen_id))
    THEN BadInput(w, "format")
    ELSE Responded(validate(w, Trim(body.citizen_id), Trim(body.scheme)))

\* The citizen ids sent: two well-formed ones, one of them with blanks
\* around it, and ill-formed ones (short, long, with a letter, blank, empty)
RouteIds ==
    {Pad12(<<"1">>), <<" ">> \o Pad12(<<"2">>) \o <<" ">>, <<"1">>,
     <<"0">> \o Pad12(<<"1">>), PadStart(<<"x">>, PadWidth, "0"),
     <<" ", " ">>, <<>>}

\* The schemes sent
RouteSchemes == {Food, <<" ", "H", "e", "a", "l", "t", "h">>, <<>>}

\* The request bodies: each field present or absent, and an amount field
\* that the route does not read.
Bodies ==
    LET ids == {[citizen_id |-> id] : id \in RouteIds} \cup {<<>>}
        schemes == {[scheme |-> scheme] : scheme \in RouteSchemes} \cup {<<>>}
        amounts == {[amount |-> 1], <<>>}
    IN  {i @@ sc @@ a : i \in ids, sc \in schemes, a \in amounts}

\* The step of a request answered with r
Answered(r, body) ==
    /\ Commit(r.w)
    /\ lastCall' = [op |-> "claim", body |-> body, validated |-> r.validated]
    /\ lastResult' = r.ret
    /\ approvedLog' =
          IF r.ret.approved
          THEN Append(approvedLog,
                      [citizenId |-> Trim(body.citizen_id),
                       citizenHash |-> hashCitizenId(body.citizen_id),
                       scheme |-> r.ret.scheme, amount |-> r.ret.amount])
          ELSE approvedLog
    /\ UNCHANGED <<now, tamper>>

\* POST /api/claim
PostClaim(body) == Answered(claimRoute(World, body), body)

NextRoute ==
    \/ \E body \in Bodies : PostClaim(body)
    \/ Pause
    \/ Resume

SpecRoute == Init /\ [][NextRoute]_vars

---------------------------------------------------------------------------
(* The program built with another value of INITIAL_BUDGET.                 *)

\* The values given to the constant: none, less than a scheme amount, and
\* the value of the source.
InitialBudgets == {0, 100000, INITIAL_BUDGET}

InitBudget == \E initialBudget \in InitialBudgets : Start(initialBudget)

NextBudget ==
    \/ \E citizenId \in TamperIds, scheme \in TamperSchemes :
          Validate(citizenId, scheme)
    \/ Pause
    \/ Resume
    \/ Tick

SpecBudget == InitBudget /\ [][NextBudget]_vars

---------------------------------------------------------------------------
(* Vocabulary of the properties.                                           *)

IsValidate(call) == call.op = "validate"

TokenOf(call) == hashCitizenId(call.citizenId)

\* The tokens approved since the process started
ApprovedTokens == {approvedLog[i].citizenHash : i \in DOMAIN approvedLog}

\* The entries persisted in the ledger file, each as its list of fields
Entries(w) ==
    IF ~w.ledgerFile.exists THEN <<>>
    ELSE [i \in DOMAIN ReadLines(w) |-> Split(ReadLines(w)[i], "|")]

\* The preconditions of the five gates as section 4.4 of the design states
\* them, each on its own.  Budget and Frequency speak of the registry
\* record, so they hold vacuously for an identity that has none.
HasRecord(call) == lookup(TokenOf(call)) # <<>>
RecordOf(call) == lookup(TokenOf(call))[1]

SystemOk(w, call) == w.status = "active"

ReplayOk(w, call) == TokenOf(call) \notin w.processedHashes

EligibilityOk(w, call) ==
    /\ HasRecord(call)
    /\ ToLowerCase(RecordOf(call).account_status) = <<"a", "c", "t", "i", "v", "e">>
    /\ RecordOf(call).aadhaar_linked
    /\ ToLowerCase(RecordOf(call).scheme_eligibility) = ToLowerCase(Trim(call.scheme))
    /\ RecordOf(call).claim_count <= 3

BudgetOk(w, call) ==
    HasRecord(call) => (w.budget > 0 /\ w.budget >= RecordOf(call).scheme_amount)

FrequencyOk(w, call) ==
    HasRecord(call) =>
        \/ RecordOf(call).last_claim_date = NoDate
        \/ w.now - RecordOf(call).last_claim_date[1] >= 30 * 24

FirstFailingGate(w, call) ==
    IF ~SystemOk(w, call) THEN "System"
    ELSE IF ~ReplayOk(w, call) THEN "Replay"
    ELSE IF ~EligibilityOk(w, call) THEN "Eligibility"
    ELSE IF ~BudgetOk(w, call) THEN "Budget"
    ELSE IF ~FrequencyOk(w, call) THEN "Frequency"
    ELSE "Approved"

---------------------------------------------------------------------------
\* C1: every validate call reports the first gate, in the order System,
\* Replay, Eligibility, Budget, Frequency, whose precondition fails in the
\* state the call starts in (and Approved when none fails).
C1_FirstFailingGateReported ==
    [][IsValidate(lastCall') =>
          lastResult'.gate = FirstFailingGate(World, lastCall')]_vars

\* C1 witness: a claim that is over budget and also too soon was rejected
\* at the Budget gate.
C1_Witness ==
    /\ IsValidate(lastCall)
    /\ lastResult.gate = "Budget"
    /\ ~BudgetOk(World, lastCall)
    /\ ~FrequencyOk(World, lastCall)

\* A claim that is a replay and also ineligible was rejected at Replay.
ReplayBeforeEligibilityReached ==
    /\ IsValidate(lastCall)
    /\ lastResult.gate = "Replay"
    /\ ~ReplayOk(World, lastCall)
    /\ ~EligibilityOk(World, lastCall)

---------------------------------------------------------------------------
\* C2: in every reachable state no identity token occurs twice among the
\* approvals of the running process.
C2_NoTokenApprovedTwice ==
    \A i, j \in DOMAIN approvedLog :
        approvedLog[i].citizenHash = approvedLog[j].citizenHash => i = j

\* C2 witness: an identity approved earlier was submitted again, after a
\* pause and resume, and was not approved.
C2_Witness ==
    /\ IsValidate(lastCall)
    /\ TokenOf(lastCall) \in ApprovedTokens
    /\ ~lastResult.approved
    /\ Len(approvedLog) >= 2
    /\ status = "active"

---------------------------------------------------------------------------
\* C3 as claimed: a validate call that directly follows a validate call for
\* the same identity is rejected with gate = Replay.
C3_SecondCallAlwaysReplay ==
    [][(IsValidate(lastCall) /\ IsValidate(lastCall')
        /\ TokenOf(lastCall) = TokenOf(lastCall'))
       => lastResult'.gate = "Replay"]_vars

\* C3 amended: a validate call for an identity approved earlier in the
\* session is rejected, with gate = Replay when the status is active and
\* gate = System otherwise, whatever the request's eligibility; a rejected
\* call does not enter its identity in the replay set.
C3_ReplayAfterApproval ==
    [][IsValidate(lastCall') =>
          /\ TokenOf(lastCall') \in ApprovedTokens =>
                /\ ~lastResult'.approved
                /\ lastResult'.gate =
                      IF status = "active" THEN "Replay" ELSE "System"
          /\ ~lastResult'.approved => processedHashes' = processedHashes]_vars

\* C3 witness: the identity approved last was submitted again with a scheme
\* it is not eligible for and was rejected at Replay.
C3_Witness ==
    /\ IsValidate(lastCall)
    /\ approvedLog # <<>>
    /\ TokenOf(lastCall) = approvedLog[Len(approvedLog)].citizenHash
    /\ ~EligibilityOk(World, lastCall)
    /\ lastResult.gate = "Replay"

---------------------------------------------------------------------------
\* C4: the budget is never negative and no step increases it.
C4_BudgetNonNegativeNonIncreasing ==
    /\ budget >= 0
    /\ [][budget' >= 0 /\ budget' <= budget]_vars

\* C4 witness: an approval has lowered the budget to a positive remainder.
C4_Witness ==
    /\ budget > 0
    /\ budget < INITIAL_BUDGET
    /\ transactionCount >= 1

---------------------------------------------------------------------------
\* C5: budget = 0 implies status = frozen, and a validate call that starts
\* with budget = 0 is rejected with gate = System.
C5_ZeroBudgetFrozen ==
    /\ [](budget = 0 => status = "frozen")
    /\ [][(budget = 0 /\ IsValidate(lastCall')) =>
             (~lastResult'.approved /\ lastResult'.gate = "System")]_vars

\* C5 witness: a claim was submitted after the budget reached zero.
C5_Witness ==
    /\ budget = 0
    /\ IsValidate(lastCall)
    /\ lastResult.gate = "System"
    /\ TokenOf(lastCall) \notin ApprovedTokens

---------------------------------------------------------------------------
\* C6: a step that starts with status = frozen ends with status = frozen.
C6_FrozenAbsorbing ==
    [][status = "frozen" => status' = "frozen"]_vars

\* C6 witness: resume was called on the frozen system.
C6_Witness ==
    /\ status = "frozen"
    /\ lastCall.op = "resume"

---------------------------------------------------------------------------
\* C7: a validate call that starts while the status is paused or frozen is
\* rejected with gate = System and changes nothing; and only resume() takes
\* the status from paused back to active.
C7_BlockedWhileNotActive ==
    [][/\ (IsValidate(lastCall') /\ status \in {"paused", "frozen"}) =>
             /\ ~lastResult'.approved
             /\ lastResult'.gate = "System"
             /\ UNCHANGED <<status, budget, transactionCount, processedHashes,
                            ledgerFile, metaFile, lastHash, initialized>>
       /\ (status = "paused" /\ status' = "active") => lastCall'.op = "resume"
      ]_vars

\* C7 witness: a claim that would otherwise pass every gate was submitted
\* while the system was paused.
C7_Witness ==
    /\ status = "paused"
    /\ IsValidate(lastCall)
    /\ lastResult.gate = "System"
    /\ FirstFailingGate([World EXCEPT !.status = "active"], lastCall) = "Approved"

---------------------------------------------------------------------------
\* C8: pause() takes active to paused and leaves paused and frozen alone,
\* resume() takes paused to active and leaves active and frozen alone, and
\* neither changes budget or transactionCount.
C8_PauseResumeTransitions ==
    [][/\ lastCall'.op = "pause" =>
             /\ status' = IF status = "active" THEN "paused" ELSE status
             /\ UNCHANGED <<budget, transactionCount>>
       /\ lastCall'.op = "resume" =>
             /\ status' = IF status = "paused" THEN "active" ELSE status
             /\ UNCHANGED <<budget, transactionCount>>
      ]_vars

\* C8 witness: pause() was called on the frozen system and left it frozen.
C8_Witness ==
    /\ lastCall.op = "pause"
    /\ status = "frozen"
    /\ lastResult.status = "frozen"

---------------------------------------------------------------------------
\* C9: an approving validate call lowers the budget by the record's scheme
\* amount, raises transactionCount by one, adds the token to the replay
\* set, and appends exactly one entry, with that token, scheme and amount,
\* whose previousEntryHash is the currentEntryHash of the former last entry
\* (the genesis hash when there was none).
C9_ApprovalEffects ==
    [][(IsValidate(lastCall') /\ lastResult'.approved) =>
          LET amount == RecordOf(lastCall').scheme_amount
              old == Entries(World)
              new == Entries(World')
          IN  /\ lastResult'.amount = amount
              /\ budget' = budget - amount
              /\ transactionCount' = transactionCount + 1
              /\ TokenOf(lastCall') \notin processedHashes
              /\ processedHashes' = processedHashes \cup {TokenOf(lastCall')}
              /\ Len(new) = Len(old) + 1
              /\ SubSeq(new, 1, Len(old)) = old
              /\ Len(new[Len(new)]) = 6
              /\ new[Len(new)][2] = TokenOf(lastCall')
              /\ new[Len(new)][3] = lastCall'.scheme
              /\ new[Len(new)][4] = NumToString(amount)
              /\ new[Len(new)][5] =
                    IF old = <<>> THEN GENESIS_HASH ELSE old[Len(old)][6]
      ]_vars

\* C9 witness: a claim was approved on a ledger that already had an entry.
C9_Witness ==
    /\ IsValidate(lastCall)
    /\ lastResult.approved
    /\ Len(Entries(World)) >= 2
    /\ Entries(World)[2][5] = Entries(World)[1][6]

---------------------------------------------------------------------------
---------------------------------------------------------------------------
\* C11: a validate call that starts with the status active, an identity not
\* in the replay set, an eligible record inside the frequency window and a
\* scheme amount exactly equal to the remaining budget is approved, and
\* ends with budget = 0 and status = frozen.
C11_ExactBudgetApprovedAndFrozen ==
    [][(/\ IsValidate(lastCall')
        /\ SystemOk(World, lastCall')
        /\ ReplayOk(World, lastCall')
        /\ EligibilityOk(World, lastCall')
        /\ FrequencyOk(World, lastCall')
        /\ RecordOf(lastCall').scheme_amount = budget)
       => (/\ lastResult'.approved
           /\ lastResult'.amount = budget
           /\ budget' = 0
           /\ status' = "frozen")]_vars

\* C11 witness: the second of two approvals took the whole remaining budget.
C11_Witness ==
    /\ IsValidate(lastCall)
    /\ lastResult.approved
    /\ lastResult.amount > 0
    /\ budget = 0
    /\ status = "frozen"
    /\ transactionCount = 2

---------------------------------------------------------------------------
\* The entries es form a hash chain: each has six fields, the first one's
\* previousEntryHash is the genesis hash, every other one's is the
\* currentEntryHash of its predecessor, and each currentEntryHash is the
\* hash of the entry's timestamp, token, scheme, amount and
\* previousEntryHash.
IsHashChain(es) ==
    \A i \in DOMAIN es :
        /\ Len(es[i]) = 6
        /\ es[i][5] = IF i = 1 THEN GENESIS_HASH ELSE es[i - 1][6]
        /\ es[i][6] = Digest(es[i][1] \o es[i][2] \o es[i][3] \o es[i][4]
                             \o es[i][5])

\* C12: in every state reached by appends on an empty or verified ledger,
\* without external edits, the persisted entries form a hash chain.
C12_PersistedEntriesFormChain == IsHashChain(Entries(World))

\* C12 witness: the ledger of an earlier run has grown by two entries.
C12_Witness ==
    /\ IsValidate(lastCall)
    /\ lastResult.approved
    /\ Len(Entries(World)) = 3
    /\ Len(approvedLog) = 2

---------------------------------------------------------------------------
\* C13: without external edits of the persisted files, every
\* verifyIntegrity call returns true and does not change the status,
\* whether it comes before, between or after the appends.
C13_VerifyTrueWithoutEdits ==
    [][lastCall'.op = "status" =>
          /\ lastResult'.ledgerIntegrity
          /\ status' = status
          /\ initialized']_vars

\* C13 witness: the ledger was verified after an approval had extended the
\* ledger of an earlier run and a later claim had been rejected.
C13_Witness ==
    /\ lastCall.op = "status"
    /\ lastResult.ledgerIntegrity
    /\ Len(Entries(World)) >= 2
    /\ transactionCount >= 1
    /\ status = "active"

---------------------------------------------------------------------------
\* C17: in every state between operations, without external edits, a
\* ledger file that exists has a stored digest, and the stored digest is
\* the digest of the complete content of the ledger file; in particular
\* after every approving call.
C17_StoredDigestMatchesFile ==
    /\ ledgerFile.exists =>
          /\ metaFile.exists
          /\ metaFile.fileHash = Digest(ledgerFile.content)
    /\ (IsValidate(lastCall) /\ lastResult.approved) => ledgerFile.exists

\* C17 witness: an approval has appended to a ledger that had an entry and
\* the stored digest is that of the longer file.
C17_Witness ==
    /\ IsValidate(lastCall)
    /\ lastResult.approved
    /\ Len(Entries(World)) >= 2
    /\ metaFile.exists
    /\ metaFile.fileHash = Digest(ledgerFile.content)

---------------------------------------------------------------------------
\* C14: once one character of the persisted ledger file has been
\* overwritten from outside, a verifyIntegrity call returns false and
\* leaves the status frozen.
C14_OneCharacterChangeDetected ==
    [][(tamper = "replace" /\ lastCall'.op = "status") =>
          /\ ~lastResult'.ledgerIntegrity
          /\ status' = "frozen"]_vars

\* C14 witness: the overwritten character left every line a valid link of
\* the chain, the call found the digest changed and froze the system, which
\* was active when the call started.
C14_Witness ==
    /\ tamper = "replace"
    /\ lastCall.op = "status"
    /\ ~lastResult.ledgerIntegrity
    /\ lastResult.status = "active"
    /\ status = "frozen"
    /\ WalkChain(ReadLines(World), 1, GENESIS_HASH).ok

---------------------------------------------------------------------------
\* C15: once a character of the persisted ledger file has been overwritten
\* or inserted from outside, every later verifyIntegrity call returns false
\* and leaves the status frozen, also when claims were approved and
\* appended between the modification and the call.
C15_ModificationStaysDetectable ==
    [][(tamper \in {"replace", "insert"} /\ lastCall'.op = "status") =>
          /\ ~lastResult'.ledgerIntegrity
          /\ status' = "frozen"]_vars

---------------------------------------------------------------------------
\* The first check: the digest of the ledger file equals the stored
\* digest; where nothing is stored, there is no ledger file either.
DigestCheckPasses(w) ==
    IF w.metaFile.exists
    THEN w.metaFile.fileHash = computeFileHash(w)
    ELSE ~w.ledgerFile.exists

\* The second check: every entry passes the chain walk.
ChainCheckPasses(w) == IsHashChain(Entries(w))

\* C16: a verifyIntegrity call returns true exactly when the digest check
\* and the chain walk both pass in the state it starts in, and when it
\* returns false it leaves the status frozen.
C16_TrueOnlyIfBothChecksPass ==
    [][lastCall'.op = "status" =>
          /\ lastResult'.ledgerIntegrity <=>
                (DigestCheckPasses(World) /\ ChainCheckPasses(World))
          /\ ~lastResult'.ledgerIntegrity => status' = "frozen"]_vars

---------------------------------------------------------------------------
\* A validate call ended with an exception.
Failed(call, result) == IsValidate(call) /\ result.gate = "Exception"

\* The hash the next entry has to link to: the currentEntryHash of the last
\* persisted entry, the genesis hash when there is none.
LastPersistedHash(w) ==
    IF Entries(w) = <<>> THEN GENESIS_HASH
    ELSE Entries(w)[Len(Entries(w))][6]

---------------------------------------------------------------------------
\* C18: a validate call during which the write of the ledger entry fails
\* approves nothing and leaves budget, transactionCount and the replay set
\* as they were, no entry having been persisted.
C18_FailedWriteLeavesStateUntouched ==
    [][(Failed(lastCall', lastResult') /\ ledgerFile' = ledgerFile) =>
          /\ ~lastResult'.approved
          /\ UNCHANGED <<budget, transactionCount, processedHashes>>]_vars

---------------------------------------------------------------------------
\* C19: a validate call during which the write of the ledger entry fails
\* leaves the cursor of an initialised ledger where it was; whenever the
\* ledger is initialised the cursor is the hash of the last persisted entry
\* (the genesis hash when there is none); and the entry of every approval
\* links to the entry that was the last persisted one before it.
C19_CursorNamesLastPersistedEntry ==
    [][/\ (Failed(lastCall', lastResult') /\ ledgerFile' = ledgerFile
            /\ initialized) => lastHash' = lastHash
       /\ initialized' => lastHash' = LastPersistedHash(World')
       /\ (IsValidate(lastCall') /\ lastResult'.approved) =>
             /\ Len(Entries(World')) = Len(Entries(World)) + 1
             /\ Entries(World')[Len(Entries(World'))][5] = LastPersistedHash(World)
      ]_vars

\* C19 witness: after a call whose entry was not written, the next claim
\* was approved and its entry is linked to the entry persisted before both.
C19_Witness ==
    /\ IsValidate(lastCall)
    /\ lastResult.approved
    /\ Len(approvedLog) = 1
    /\ transactionCount = 2
    /\ Len(Entries(World)) = 2
    /\ Entries(World)[1][1] = ToISOString(0 - HoursPerDay)
    /\ Entries(World)[2][5] = Entries(World)[1][6]
    /\ lastHash = Entries(World)[2][6]

---------------------------------------------------------------------------
\* C20: a validate call during which a write of append fails leaves the
\* status frozen, a verifyIntegrity call that returns false leaves the
\* status frozen, and no claim is approved once the status is frozen.
C20_FailuresFreeze ==
    [][/\ Failed(lastCall', lastResult') => status' = "frozen"
       /\ (lastCall'.op = "status" /\ ~lastResult'.ledgerIntegrity) =>
             status' = "frozen"
       /\ (status = "frozen" /\ IsValidate(lastCall')) => ~lastResult'.approved
      ]_vars

---------------------------------------------------------------------------
\* The sum of the amounts of the approvals log[1..n]
RECURSIVE SumAmounts(_, _)
SumAmounts(log, n) ==
    IF n = 0 THEN 0 ELSE SumAmounts(log, n - 1) + log[n].amount

\* C21: whatever the order in which the claim, pause, resume and status
\* requests are handled, the amounts approved since the process started sum
\* to no more than the budget it started with, and no two approvals are for
\* the same identity token.
C21_NoOverdrawNoDoubleApproval ==
    /\ SumAmounts(approvedLog, Len(approvedLog)) <= INITIAL_BUDGET
    /\ Cardinality(ApprovedTokens) = Len(approvedLog)

\* C21 witness: of two claims that the starting budget covers one by one
\* but not together, the second was rejected at the Budget gate.
C21_Witness ==
    /\ IsValidate(lastCall)
    /\ lastResult.gate = "Budget"
    /\ approvedLog # <<>>
    /\ RecordOf(lastCall).scheme_amount <= INITIAL_BUDGET
    /\ SumAmounts(approvedLog, Len(approvedLog))
          + RecordOf(lastCall).scheme_amount > INITIAL_BUDGET
    /\ budget > 0

---------------------------------------------------------------------------
\* pat occurs in text as a contiguous run of symbols.
Contains(text, pat) ==
    \E i \in 1..(Len(text) - Len(pat) + 1) :
        SubSeq(text, i, i + Len(pat) - 1) = pat

\* The texts a decision object carries: the values interpolated in its
\* reason and, in an approval, the scheme, the amount and the timestamp.
TextsOf(result) ==
    {result.reason.args[i] : i \in DOMAIN result.reason.args}
    \cup (IF result.approved
          THEN {result.scheme, NumToString(result.amount), result.timestamp}
          ELSE {})

\* C22: the object returned for a claim has no field other than approved,
\* gate, reason, amount, scheme and timestamp, and neither the identity
\* token nor the 12-digit identity occurs in any of its texts, whether the
\* claim is approved or rejected at any gate.
C22_DecisionCarriesNoIdentity ==
    IsValidate(lastCall) =>
        /\ DOMAIN lastResult \subseteq
              {"approved", "gate", "reason", "amount", "scheme", "timestamp"}
        /\ \A text \in TextsOf(lastResult) :
              /\ ~Contains(text, TokenOf(lastCall))
              /\ ~Contains(text, Pad12(Trim(lastCall.citizenId)))

\* C22 witness: a rejection whose reason quotes the registry record and the
\* request, for an identity submitted as 12 digits.
C22_Witness ==
    /\ IsValidate(lastCall)
    /\ lastResult.gate = "Eligibility"
    /\ Len(lastResult.reason.args) = 2
    /\ lastResult.reason.args[2] = lastCall.scheme
    /\ Len(lastCall.citizenId) = PadWidth

---------------------------------------------------------------------------
\* C23: after every verifyIntegrity call that returns true the cursor is
\* the currentEntryHash of the last persisted entry, or the genesis hash
\* when no entry is persisted; and an approval that follows appends an entry
\* linked to that entry.
C23_CursorAfterVerify ==
    [][/\ (lastCall'.op = "status" /\ lastResult'.ledgerIntegrity) =>
             lastHash' = LastPersistedHash(World')
       /\ (lastCall.op = "status" /\ lastResult.ledgerIntegrity
           /\ IsValidate(lastCall') /\ lastResult'.approved) =>
             Entries(World')[Len(Entries(World'))][5] = LastPersistedHash(World)
      ]_vars

---------------------------------------------------------------------------
\* A further verifyIntegrity call, with outcome again, returns ret and
\* leaves the state w it started in.
SameAgain(again, w, ret) == again.ret = ret /\ again.w = w

\* C24: a verifyIntegrity call changes neither the ledger file nor the
\* stored digest, and a second call directly after it returns the same
\* result and leaves the cursor, the status and everything else as the
\* first call left them.
C24_VerifyRepeatable ==
    [][lastCall'.op = "status" =>
          /\ ledgerFile' = ledgerFile
          /\ metaFile' = metaFile
          /\ SameAgain(verifyIntegrity(World'), World',
                       lastResult'.ledgerIntegrity)]_vars

\* C24 witness: verifyIntegrity returned false on a system that an earlier
\* failed verification had frozen.
C24_Witness ==
    /\ lastCall.op = "status"
    /\ ~lastResult.ledgerIntegrity
    /\ lastResult.status = "frozen"
    /\ budget > 0
    /\ status = "frozen"

---------------------------------------------------------------------------
\* Entry i of es has six fields, its previousEntryHash is the
\* currentEntryHash of entry i - 1 (the genesis hash for the first entry),
\* and its currentEntryHash is the hash of its other fields.
EntryPasses(es, i) ==
    /\ Len(es[i]) = 6
    /\ es[i][5] = IF i = 1 THEN GENESIS_HASH ELSE es[i - 1][6]
    /\ es[i][6] = Digest(es[i][1] \o es[i][2] \o es[i][3] \o es[i][4]
                         \o es[i][5])

\* The index of the first entry from i on that does not pass, 0 if none
RECURSIVE FirstFailing(_, _)
FirstFailing(es, i) ==
    IF i > Len(es) THEN 0
    ELSE IF ~EntryPasses(es, i) THEN i
    ELSE FirstFailing(es, i + 1)

\* The running hash when the walk reaches entry k
RunningHashAt(es, k) == IF k = 1 THEN GENESIS_HASH ELSE es[k - 1][6]

\* C25: a verifyIntegrity call on a ledger with an entry that has not six
\* fields, or does not link to its predecessor, or does not carry the hash
\* of its fields, returns false, leaves the status frozen and the cursor
\* unchanged; and the chain walk stops at the first such entry.
C25_WalkFailureFreezesKeepsCursor ==
    [][(lastCall'.op = "status" /\ FirstFailing(Entries(World), 1) # 0) =>
          /\ ~lastResult'.ledgerIntegrity
          /\ status' = "frozen"
          /\ lastHash' = lastHash
          /\ WalkChain(ReadLines(World), 1, GENESIS_HASH) =
                [ok |-> FALSE,
                 prevHash |-> RunningHashAt(Entries(World),
                                            FirstFailing(Entries(World), 1))]
      ]_vars

\* C25 witness: the stored digest matched the file, the chain walk failed
\* at the first of two entries and froze the active system, and the cursor
\* still names the second entry.
C25_Witness ==
    /\ lastCall.op = "status"
    /\ ~lastResult.ledgerIntegrity
    /\ lastResult.status = "active"
    /\ status = "frozen"
    /\ DigestCheckPasses(World)
    /\ FirstFailing(Entries(World), 1) = 1
    /\ Len(Entries(World)) = 2
    /\ Len(Entries(World)[2]) = 6
    /\ lastHash = Entries(World)[2][6]

\* C26: a pause, resume, status or recent-entries request leaves the
\* budget, the transaction count, the set of processed tokens, the ledger
\* file and the meta file as they were.
C26_AdminLeavesBooksAlone ==
    [][lastCall'.op \in {"pause", "resume", "status", "ledger"} =>
          UNCHANGED <<budget, transactionCount, processedHashes,
                      ledgerFile, metaFile>>
      ]_vars

\* C26 witness: a paused system with one approval of this run on the books
\* has just been resumed.
C26_Witness ==
    /\ lastCall.op = "resume"
    /\ lastResult.status = "active"
    /\ Len(approvedLog) = 1
    /\ budget < INITIAL_BUDGET
    /\ transactionCount > 0
    /\ metaFile.exists

Min(a, b) == IF a <= b THEN a ELSE b

\* entries are the views of the last k of the lines, in file order
LastViews(entries, lines, k) ==
    /\ Len(entries) = k
    /\ \A i \in 1..k : entries[i] = EntryView(lines[Len(lines) - k + i])

\* C27: getLastLines(n) returns the last min(n, length) entries of the
\* ledger file, oldest first, so at most n of them, and leaves the ledger
\* file, the meta file, the cursor and the system state as they were.
C27_LastNInOrder ==
    [][lastCall'.op = "getLastLines" =>
          /\ Len(lastResult'.entries) <= lastResult'.n
          /\ LastViews(lastResult'.entries, ReadLines(World),
                       Min(lastResult'.n, Len(ReadLines(World))))
          /\ UNCHANGED <<ledgerFile, metaFile, lastHash, initialized,
                         status, budget, transactionCount, processedHashes>>
      ]_vars

\* The same for the counts above zero.
C27_LastNInOrder_Positive ==
    [][(lastCall'.op = "getLastLines" /\ lastResult'.n > 0) =>
          /\ Len(lastResult'.entries) <= lastResult'.n
          /\ LastViews(lastResult'.entries, ReadLines(World),
                       Min(lastResult'.n, Len(ReadLines(World))))
          /\ UNCHANGED <<ledgerFile, metaFile, lastHash, initialized,
                         status, budget, transactionCount, processedHashes>>
      ]_vars

\* One of two entries asked for, and the later one returned.
C27_Positive_Witness ==
    /\ lastCall.op = "getLastLines"
    /\ lastResult.n = 1
    /\ Len(Entries(World)) = 2
    /\ Len(lastResult.entries) = 1
    /\ lastResult.entries[1].timestamp = Entries(World)[2][1]

\* The least whole number of days that covers the hours still to wait
DaysToWait(elapsedHours) ==
    CHOOSE d \in 0..60 :
        /\ d * 24 >= 30 * 24 - elapsedHours
        /\ (d - 1) * 24 < 30 * 24 - elapsedHours

C28_WitnessThirty ==
    /\ IsValidate(lastCall)
    /\ lastResult.approved
    /\ RecordOf(lastCall).last_claim_date # NoDate
    /\ now - RecordOf(lastCall).last_claim_date[1] = 30 * 24

\* The canonical form of a raw identity: trimmed, then zero-padded on the
\* left to 12 characters
Canonical(rawId) == PadStart(Trim(rawId), 12, "0")

\* A raw identity approved since the process started has this canonical form
ApprovedAs(canonical) ==
    \E i \in DOMAIN approvedLog : Canonical(approvedLog[i].citizenId) = canonical

\* Among the raw identities submitted, two have the same token iff they
\* have the same canonical form.
SameTokenIffSameCanonical ==
    \A a, b \in RawIds :
        (hashCitizenId(a) = hashCitizenId(b)) <=> (Canonical(a) = Canonical(b))

\* C29: two raw identities have the same token iff they have the same
\* canonical form; and a claim made while the system is active is rejected
\* at Replay iff a raw identity with the same canonical form, in whatever
\* spelling, has been approved since the process started.
C29_TokenIsCanonical ==
    [][/\ SameTokenIffSameCanonical
       /\ (IsValidate(lastCall') /\ status = "active") =>
              ((lastResult'.gate = "Replay") <=>
                  ApprovedAs(Canonical(lastCall'.citizenId)))
      ]_vars

\* C29 witness: citizen 2 was approved under the 12-digit spelling and is
\* rejected at Replay under the spelling with blanks around it.
C29_Witness ==
    /\ IsValidate(lastCall)
    /\ lastResult.gate = "Replay"
    /\ Len(lastCall.citizenId) = 14
    /\ Len(approvedLog) = 1
    /\ approvedLog[1].citizenId = Trim(lastCall.citizenId)
    /\ approvedLog[1].citizenId # lastCall.citizenId

AppendedHere(w) ==
    {i \in DOMAIN Entries(w) : Entries(w)[i][1] # ToISOString(0 - HoursPerDay)}

\* C31: the set of processed tokens never loses a member, and after every
\* step it is the set of tokens approved since the process started, with as
\* many members as transactionCount counts and as the process has appended
\* ledger entries.
C31_ReplaySetIsApprovedSet ==
    [][/\ processedHashes \subseteq processedHashes'
       /\ processedHashes' = ApprovedTokens'
       /\ Cardinality(processedHashes') = transactionCount'
       /\ Cardinality(processedHashes') = Cardinality(AppendedHere(World'))
      ]_vars

\* Two approvals on top of the entry of the earlier run.
C31_TwoApprovals ==
    /\ Cardinality(processedHashes) = 2
    /\ Len(approvedLog) = 2
    /\ Len(Entries(World)) = 3

\* C32: the remaining budget and the amounts approved since the process
\* started add up to the initial budget.
C32_BudgetConserved ==
    budget + SumAmounts(approvedLog, Len(approvedLog)) = INITIAL_BUDGET

\* C33: an active system has a positive budget, so that no validate call
\* is answered with the rejection for an exhausted budget.
C33_ActiveHasBudget ==
    /\ status = "active" => budget > 0
    /\ IsValidate(lastCall) =>
          ~(lastResult.gate = "Budget" /\ lastResult.reason.code = "exhausted")

\* C33 witness: the budget is used up and the system frozen, and a claim
\* that is no replay and is eligible has been turned away at the System
\* gate, before the Budget gate could see the empty budget.
C33_Witness ==
    /\ IsValidate(lastCall)
    /\ lastResult.gate = "System"
    /\ budget = 0
    /\ status = "frozen"
    /\ ReplayOk(World, lastCall)
    /\ EligibilityOk(World, lastCall)

\* C34: a claim that passes the first three gates with a budget of 0 is
\* rejected at Budget as exhausted, even when its amount also exceeds the
\* budget, and the system is frozen; one whose amount exceeds a positive
\* budget is rejected at Budget as insufficient, with the system still
\* active and the budget as it was.
C34_ExhaustedBeforeShortfall ==
    [][(/\ IsValidate(lastCall')
        /\ SystemOk(World, lastCall')
        /\ ReplayOk(World, lastCall')
        /\ EligibilityOk(World, lastCall')) =>
          /\ budget = 0 =>
                /\ lastResult'.gate = "Budget"
                /\ lastResult'.reason.code = "exhausted"
                /\ status' = "frozen"
                /\ budget' = 0
          /\ (budget > 0 /\ RecordOf(lastCall').scheme_amount > budget) =>
                /\ lastResult'.gate = "Budget"
                /\ lastResult'.reason.code = "insufficient"
                /\ status' = "active"
                /\ budget' = budget
      ]_vars

\* C34 witness: with nothing to spend from the start, a claim for a
\* positive amount has been rejected as exhausted and has frozen the system.
C34_Witness ==
    /\ IsValidate(lastCall)
    /\ lastResult.gate = "Budget"
    /\ lastResult.reason.code = "exhausted"
    /\ RecordOf(lastCall).scheme_amount > 0
    /\ budget = 0
    /\ status = "frozen"

\* The other case: a claim for more than a positive budget.
C34_WitnessShortfall ==
    /\ IsValidate(lastCall)
    /\ lastResult.gate = "Budget"
    /\ lastResult.reason.code = "insufficient"
    /\ budget > 0
    /\ status = "active"

\* The first of the five eligibility conditions that the claim fails, in
\* the order of section 4.4, or "none"
FirstEligibilityFailure(call) ==
    IF ~HasRecord(call) THEN "not-found"
    ELSE IF ToLowerCase(RecordOf(call).account_status) # <<"a", "c", "t", "i", "v", "e">>
    THEN "inactive"
    ELSE IF ~RecordOf(call).aadhaar_linked THEN "not-linked"
    ELSE IF ToLowerCase(RecordOf(call).scheme_eligibility)
               # ToLowerCase(Trim(call.scheme))
    THEN "mismatch"
    ELSE IF RecordOf(call).claim_count >= 4 THEN "limit-exceeded"
    ELSE "none"

\* C35: a claim that passes the System and Replay gates is rejected at
\* Eligibility iff it fails one of the conditions not-found, inactive,
\* not-linked, mismatch (letter case ignored), limit-exceeded (a count of 4
\* or more), and the reason is that of the first one it fails; the call
\* never ends in an exception.
C35_FirstEligibilityFailureReported ==
    [][(/\ IsValidate(lastCall')
        /\ SystemOk(World, lastCall')
        /\ ReplayOk(World, lastCall')) =>
          /\ lastResult'.gate # "Exception"
          /\ IF FirstEligibilityFailure(lastCall') = "none"
             THEN lastResult'.gate # "Eligibility"
             ELSE /\ lastResult'.gate = "Eligibility"
                  /\ ~lastResult'.approved
                  /\ lastResult'.reason.code = FirstEligibilityFailure(lastCall')
      ]_vars

\* C35 witness: a citizen whose credential is not linked, who is eligible
\* for another scheme and has a count of 4, is told of the missing link.
C35_Witness ==
    /\ IsValidate(lastCall)
    /\ lastResult.gate = "Eligibility"
    /\ lastResult.reason.code = "not-linked"
    /\ ToLowerCase(RecordOf(lastCall).scheme_eligibility)
          # ToLowerCase(Trim(lastCall.scheme))
    /\ RecordOf(lastCall).claim_count = 4

\* A count of exactly 3 passes, the scheme being given in another case.
C35_WitnessThree ==
    /\ IsValidate(lastCall)
    /\ lastResult.approved
    /\ RecordOf(lastCall).claim_count = 3

\* An identity without a registry record.
C35_WitnessAbsent ==
    /\ IsValidate(lastCall)
    /\ ~HasRecord(lastCall)
    /\ lastResult.gate = "Eligibility"
    /\ lastResult.reason.code = "not-found"

\* The scheme given in lower case with a blank in front passes.
C35_WitnessCase ==
    /\ IsValidate(lastCall)
    /\ lastResult.approved
    /\ lastCall.scheme # RecordOf(lastCall).scheme_eligibility

\* C36: when a claim passes the five gates in a process that has not yet
\* verified its ledger, and the verification that append then runs returns
\* false, the ledger file and the meta file stay as they were and the claim
\* is not approved.
C36_NoAppendOnFailedVerification ==
    [][(/\ IsValidate(lastCall')
        /\ ~initialized
        /\ FirstFailingGate(World, lastCall') = "Approved"
        /\ ~verifyIntegrity(World).ret) =>
          /\ ledgerFile' = ledgerFile
          /\ metaFile' = metaFile
          /\ ~lastResult'.approved
      ]_vars

\* C37: a status response that reports ledgerIntegrity = false reports the
\* status frozen.
C37_StatusResponseConsistent ==
    (lastCall.op = "status" /\ ~lastResult.ledgerIntegrity) =>
        lastResult.status = "frozen"

\* The registry record of the citizen a request body names
RecordFor(body) == lookup(hashCitizenId(body.citizen_id))[1]

\* C38: when a claim request is approved, the amount in the response, the
\* amount by which the budget falls and the amount in the new ledger entry
\* are all the scheme amount of the citizen's registry record, whatever
\* else the request carries.
C38_AmountIsSchemeAmount ==
    [][(lastCall'.op = "claim" /\ lastResult'.approved) =>
          /\ lastResult'.amount = RecordFor(lastCall'.body).scheme_amount
          /\ budget - budget' = RecordFor(lastCall'.body).scheme_amount
          /\ Entries(World')[Len(Entries(World'))][4] =
                NumToString(RecordFor(lastCall'.body).scheme_amount)
          /\ Len(Entries(World')) = Len(Entries(World)) + 1
      ]_vars

\* C38 witness: a request that names an amount of 1 is approved for the
\* 500000 of the registry record.
C38_Witness ==
    /\ lastCall.op = "claim"
    /\ lastResult.approved
    /\ "amount" \in DOMAIN lastCall.body
    /\ lastCall.body.amount # lastResult.amount
    /\ lastResult.amount = 500000
    /\ budget = INITIAL_BUDGET - 500000

\* The text is 12 characters long and each is a decimal digit.
IsTwelveDigits(text) ==
    /\ Len(text) = 12
    /\ \A i \in 1..Len(text) : \E d \in 0..9 : text[i] = ToString(d)

\* The request lacks a citizen id or a scheme, or its citizen id without
\* the blanks around it is not 12 digits.
IllFormed(body) ==
    \/ "citizen_id" \notin DOMAIN body
    \/ "scheme" \notin DOMAIN body
    \/ body.citizen_id = <<>>
    \/ body.scheme = <<>>
    \/ ~IsTwelveDigits(Trim(body.citizen_id))

\* C39: an ill-formed claim request is answered with a rejection at the
\* Input gate, validate is not called, and the system state, the replay
\* set, the ledger file and the meta file stay as they were; a well-formed
\* one reaches validate.
C39_IllFormedStopsAtInput ==
    [][lastCall'.op = "claim" =>
          IF IllFormed(lastCall'.body)
          THEN /\ lastResult'.gate = "Input"
               /\ ~lastResult'.approved
               /\ ~lastCall'.validated
               /\ UNCHANGED <<status, budget, transactionCount,
                              processedHashes, ledgerFile, metaFile>>
          ELSE /\ lastResult'.gate # "Input"
               /\ lastCall'.validated
      ]_vars

\* C39 witness: with the system active and a budget to spend, a request
\* for a scheme whose citizen id is a single digit is stopped at Input.
C39_Witness ==
    /\ lastCall.op = "claim"
    /\ lastResult.gate = "Input"
    /\ lastResult.reason.code = "format"
    /\ "citizen_id" \in DOMAIN lastCall.body
    /\ Len(lastCall.body.citizen_id) = 1
    /\ status = "active"
    /\ budget > 0
    /\ Len(approvedLog) = 1

===========================================================================
